---- MODULE Spec2Model ----
(***************************************************************************)
(* A model of simple_calculator.py: the expression evaluator               *)
(* (EXPR_RE, OPS, calculate_expression), format_number and the read-eval-  *)
(* print loop of main.                                                     *)
(*                                                                         *)
(* Text is a sequence of one-character strings.  A float is an exact       *)
(* rational n/d: every operand literal of the input sets below has a       *)
(* fractional part of .0 or .5, which float() represents exactly, and for  *)
(* such operands +, -, *, // and % are exact in double precision.  A       *)
(* quotient or power that is not a binary fraction is kept as the exact    *)
(* rational it rounds from; an irrational power is a value of its own.     *)
(***************************************************************************)
EXTENDS Integers, Sequences, FiniteSets, TLC

VARIABLES
    pc,        \* where the program is: "input", "exited"; "call", "returned", "formatted"
    event,     \* what the last step read: a line, end of input, an interrupt, ...
    expr,      \* the line read, or the argument of the call
    result,    \* what calculate_expression gave for it
    shown,     \* what format_number gave for the result
    out,       \* the lines the last step printed on standard output
    nread,     \* the lines read so far
    calls,     \* the calls of calculate_expression the last step made
    exitcode,  \* the exit status, once exited
    uncaught   \* the exception that ended the process, "" for none

vars == <<pc, event, expr, result, shown, out, nread, calls, exitcode, uncaught>>

(***************************************************************************)
(* Bounds of the model.                                                    *)
(***************************************************************************)
\* Operand literals have an integer part in 0..MaxMag.
MaxMag == 4
\* Arbitrary strings over RawChars up to this length.
MaxRawLen == 4
\* Arbitrary operator regions (operator characters and blanks) up to this length.
MaxOpLen == 5
\* The session reads at most this many lines.
MaxReads == 2
\* Fractional digits of a displayed float the model computes.
FracDigits == 6

(***************************************************************************)
(* Integers and rationals.                                                 *)
(***************************************************************************)
Abs(x) == IF x < 0 THEN -x ELSE x

Min(S) == CHOOSE x \in S : \A y \in S : x <= y

RECURSIVE Gcd(_, _)
Gcd(a, b) == IF b = 0 THEN a ELSE Gcd(b, a % b)

RECURSIVE IntPow(_, _)
IntPow(x, k) == IF k = 0 THEN 1 ELSE x * IntPow(x, k - 1)

\* The float with value n/d, in lowest terms with a positive denominator.
Float(n, d) ==
    LET g == Gcd(Abs(n), Abs(d))
        s == IF d < 0 THEN -1 ELSE 1
    IN  [t |-> "float", n |-> (s * n) \div g, d |-> (s * d) \div g]

\* A power that is no rational number: the double nearest to it.
Irrational == [t |-> "irrational", n |-> 0, d |-> 1]

\* The complex number Python's ** gives for a negative base and a
\* non-integer exponent.
Complex == [t |-> "complex", n |-> 0, d |-> 1]

NoValue == [t |-> "none", n |-> 0, d |-> 1]

IsZero(x) == x.t = "float" /\ x.n = 0
IsNeg(x) == x.t = "float" /\ x.n < 0
IsIntegral(x) == x.t = "float" /\ x.d = 1
Less(x, y) == x.n * y.d < y.n * x.d

Add(x, y) == Float(x.n * y.d + y.n * x.d, x.d * y.d)
Sub(x, y) == Float(x.n * y.d - y.n * x.d, x.d * y.d)
Mul(x, y) == Float(x.n * y.n, x.d * y.d)
Div(x, y) == Float(x.n * y.d, x.d * y.n)

\* C's trunc and floor of a rational.
TruncInt(x) == IF x.n >= 0 THEN x.n \div x.d ELSE -((-x.n) \div x.d)
FloorInt(x) == x.n \div x.d

\* C's fmod(x, y): the remainder with the sign of x.
Fmod(x, y) == Sub(x, Mul(y, Float(TruncInt(Div(x, y)), 1)))

(***************************************************************************)
(* What a call gives: a returned value, or a raised exception.             *)
(***************************************************************************)
Return(v) == [kind |-> "return", val |-> v, etype |-> "", msg |-> "", invoked |-> FALSE]

Raise(e, m) == [kind |-> "raise", val |-> NoValue, etype |-> e, msg |-> m, invoked |-> FALSE]

NoResult == [kind |-> "none", val |-> NoValue, etype |-> "", msg |-> "", invoked |-> FALSE]

(***************************************************************************)
(* OPS: Python's float operators.                                          *)
(***************************************************************************)
\* a / b
TrueDiv(a, b) ==
    IF IsZero(b) THEN Raise("ZeroDivisionError", "float division by zero")
    ELSE Return(Div(a, b))

\* a // b: fmod, then the quotient of what is left, moved down by one when
\* the remainder and the divisor differ in sign.
FloorDiv(a, b) ==
    IF IsZero(b) THEN Raise("ZeroDivisionError", "float floor division by zero")
    ELSE LET mod == Fmod(a, b)
             div == Div(Sub(a, mod), b)
             adj == IF ~IsZero(mod) /\ (IsNeg(b) # IsNeg(mod))
                    THEN Sub(div, Float(1, 1)) ELSE div
             fl  == Float(FloorInt(adj), 1)
         IN  IF IsZero(adj) THEN Return(Float(0, 1))
             ELSE IF Less(Float(1, 2), Sub(adj, fl)) THEN Return(Add(fl, Float(1, 1)))
             ELSE Return(fl)

\* The remainder with the sign of the dividend, as C's fmod leaves it.
Modulo_Fmod(a, b) ==
    IF IsZero(b) THEN Raise("ZeroDivisionError", "float modulo")
    ELSE Return(Fmod(a, b))

\* a % b: fmod, plus the divisor when the remainder and the divisor differ
\* in sign.
Modulo(a, b) ==
    IF IsZero(b) THEN Raise("ZeroDivisionError", "float modulo")
    ELSE LET mod == Fmod(a, b)
         IN  IF ~IsZero(mod) /\ (IsNeg(b) # IsNeg(mod)) THEN Return(Add(mod, b))
             ELSE Return(mod)

\* The integers whose q-th power is x.
Roots(x, q) == {r \in 0..x : IntPow(r, q) = x}

\* a ** b
Power(a, b) ==
    IF IsZero(b) THEN Return(Float(1, 1))
    ELSE IF IsZero(a) THEN
        IF IsNeg(b)
        THEN Raise("ZeroDivisionError", "0.0 cannot be raised to a negative power")
        ELSE Return(Float(0, 1))
    ELSE IF IsNeg(a) /\ ~IsIntegral(b) THEN Return(Complex)
    ELSE IF IsIntegral(b) THEN
        IF b.n > 0 THEN Return(Float(IntPow(a.n, b.n), IntPow(a.d, b.n)))
        ELSE Return(Float(IntPow(a.d, -b.n), IntPow(a.n, -b.n)))
    ELSE IF Roots(a.n, b.d) = {} \/ Roots(a.d, b.d) = {} THEN Return(Irrational)
    ELSE LET rn == CHOOSE r \in Roots(a.n, b.d) : TRUE
             rd == CHOOSE r \in Roots(a.d, b.d) : TRUE
         IN  IF b.n > 0 THEN Return(Float(IntPow(rn, b.n), IntPow(rd, b.n)))
             ELSE Return(Float(IntPow(rd, -b.n), IntPow(rn, -b.n)))

OpsKeys == {<<"+">>, <<"-">>, <<"*">>, <<"/">>, <<"/", "/">>, <<"%">>, <<"*", "*">>}

OPS(op, a, b) ==
    CASE op = <<"+">> -> Return(Add(a, b))
      [] op = <<"-">> -> Return(Sub(a, b))
      [] op = <<"*">> -> Return(Mul(a, b))
      [] op = <<"/">> -> TrueDiv(a, b)
      [] op = <<"/", "/">> -> FloorDiv(a, b)
      [] op = <<"%">> -> Modulo(a, b)
      [] op = <<"*", "*">> -> Power(a, b)

(***************************************************************************)
(* Text.                                                                   *)
(***************************************************************************)
DigitChars == <<"0", "1", "2", "3", "4", "5", "6", "7", "8", "9">>

IsDigit(c) == \E k \in 1..Len(DigitChars) : DigitChars[k] = c

DigitVal(c) == (CHOOSE k \in 1..Len(DigitChars) : DigitChars[k] = c) - 1

\* What \s and str.strip() take for whitespace, among the characters used.
IsSpace(c) == c \in {" ", "\t"}

\* The character at position i, "" beyond the end.
At(s, i) == IF i \in 1..Len(s) THEN s[i] ELSE ""

\* The concatenation of a sequence of sequences.
Flatten(ss) ==
    LET f[k \in 0..Len(ss)] == IF k = 0 THEN <<>> ELSE f[k - 1] \o ss[k]
    IN  f[Len(ss)]

\* hi, hi - 1, ..., lo
Desc(hi, lo) == [k \in 1..(hi - lo + 1) |-> hi - k + 1]

\* The read without .strip().
Strip_Identity(s) == s

\* str.strip()
Strip(s) ==
    LET keep == {i \in 1..Len(s) : ~IsSpace(s[i])}
    IN  IF keep = {} THEN <<>>
        ELSE SubSeq(s, Min(keep), CHOOSE i \in keep : \A j \in keep : j <= i)

UpperLetters == <<"Q", "U", "I", "T", "E", "X", "H", "L", "P">>
LowerLetters == <<"q", "u", "i", "t", "e", "x", "h", "l", "p">>

\* The comparison without .lower().
Lower_Identity(s) == s

\* str.lower()
Lower(s) ==
    [i \in 1..Len(s) |->
        IF \E k \in 1..Len(UpperLetters) : UpperLetters[k] = s[i]
        THEN LowerLetters[CHOOSE k \in 1..Len(UpperLetters) : UpperLetters[k] = s[i]]
        ELSE s[i]]

(***************************************************************************)
(* EXPR_RE, as the backtracking matcher runs it: each piece of the pattern *)
(* gives the positions it can end at, in the order the matcher tries them, *)
(* and the match is the first way through all the pieces.                  *)
(***************************************************************************)
\* \s* from i: greedy, the longest run first.
SpaceEnds(s, i) ==
    LET stop == Min({j \in i..(Len(s) + 1) : ~IsSpace(At(s, j))} \cup {Len(s) + 1})
    IN  Desc(stop, i)

\* \d+ from i: greedy, at least one digit.
DigitEnds(s, i) ==
    LET stop == Min({j \in i..(Len(s) + 1) : ~IsDigit(At(s, j))} \cup {Len(s) + 1})
    IN  Desc(stop, i + 1)

\* (?:\.\d+)? from i: with the fraction first, then without.
FractionEnds(s, i) ==
    (IF At(s, i) = "." THEN DigitEnds(s, i + 1) ELSE <<>>) \o <<i>>

\* -?\d+(?:\.\d+)? from i.
NumberEnds(s, i) ==
    LET signs == (IF At(s, i) = "-" THEN <<i + 1>> ELSE <<>>) \o <<i>>
        ints  == Flatten([k \in 1..Len(signs) |-> DigitEnds(s, signs[k])])
    IN  Flatten([k \in 1..Len(ints) |-> FractionEnds(s, ints[k])])

\* The pattern's operator group with the one-character class alone.
OperatorEnds_SingleOnly(s, i) ==
    IF At(s, i) \in {"+", "-", "*", "/", "%"} THEN <<i + 1>> ELSE <<>>

\* //|\*\*|[+\-*/%] from i, the alternatives in the pattern's order.
OperatorEnds(s, i) ==
    (IF At(s, i) = "/" /\ At(s, i + 1) = "/" THEN <<i + 2>> ELSE <<>>)
    \o (IF At(s, i) = "*" /\ At(s, i + 1) = "*" THEN <<i + 2>> ELSE <<>>)
    \o (IF At(s, i) \in {"+", "-", "*", "/", "%"} THEN <<i + 1>> ELSE <<>>)

\* The pattern's pieces in order: \s*, operand, \s*, operator, \s*, operand, \s*.
PieceEnds(s, i, piece) ==
    CASE piece \in {2, 6} -> NumberEnds(s, i)
      [] piece = 4 -> OperatorEnds(s, i)
      [] OTHER -> SpaceEnds(s, i)

\* The pattern's $ with every position taken for the end.
AtEnd_Anywhere(s, i) == TRUE

\* $ at i
AtEnd(s, i) == i = Len(s) + 1

\* The pieces from `piece` on matched from position i: the first of the
\* piece's ends from which the rest of the pattern matches, followed by what
\* the rest matched; <<>> when none does.
RECURSIVE MatchFrom(_, _, _)
MatchFrom(s, i, piece) ==
    IF piece > 7 THEN (IF AtEnd(s, i) THEN <<i>> ELSE <<>>)
    ELSE LET ends == PieceEnds(s, i, piece)
             try[k \in 1..(Len(ends) + 1)] ==
                 IF k > Len(ends) THEN <<>>
                 ELSE LET r == MatchFrom(s, ends[k], piece + 1)
                      IN  IF r # <<>> THEN <<ends[k]>> \o r ELSE try[k + 1]
         IN  try[1]

\* EXPR_RE.match(s): <<>> for no match, else the positions
\* <<a0, a1, o0, o1, b0, b1, ...>> of the three groups (each from the first
\* position up to, not including, the second).
EXPR_RE(s) == MatchFrom(s, 1, 1)

\* m.groups()
Groups(s, m) ==
    <<SubSeq(s, m[1], m[2] - 1), SubSeq(s, m[3], m[4] - 1), SubSeq(s, m[5], m[6] - 1)>>

(***************************************************************************)
(* float() of a matched operand.                                           *)
(***************************************************************************)
\* The number a run of digits writes.
DigitsValue(ds) ==
    LET f[k \in 0..Len(ds)] == IF k = 0 THEN 0 ELSE 10 * f[k - 1] + DigitVal(ds[k])
    IN  f[Len(ds)]

ToFloat(txt) ==
    LET neg  == At(txt, 1) = "-"
        body == IF neg THEN Tail(txt) ELSE txt
        dots == {i \in 1..Len(body) : body[i] = "."}
        ip   == IF dots = {} THEN body ELSE SubSeq(body, 1, Min(dots) - 1)
        fp   == IF dots = {} THEN <<>> ELSE SubSeq(body, Min(dots) + 1, Len(body))
        sc   == IntPow(10, Len(fp))
        mag  == DigitsValue(ip) * sc + DigitsValue(fp)
    IN  Float(IF neg THEN -mag ELSE mag, sc)

(***************************************************************************)
(* calculate_expression                                                    *)
(***************************************************************************)
InvalidFormat == "Invalid format. Use: <number> <operator> <number> (try 'help')"

DivisionByZero == "Division by zero is not allowed"

\* The guard with // and % forgotten.
DivisionGuard_TrueDivOnly(op, b) == op = <<"/">> /\ IsZero(b)

\* op in {'/', '//', '%'} and b == 0
DivisionGuard(op, b) == op \in {<<"/">>, <<"/", "/">>, <<"%">>} /\ IsZero(b)

calculate_expression(e) ==
    LET m == EXPR_RE(e)
    IN  IF m = <<>> THEN Raise("ValueError", InvalidFormat)
        ELSE LET g  == Groups(e, m)
                 a  == ToFloat(g[1])
                 op == g[2]
                 b  == ToFloat(g[3])
             IN  IF op \notin OpsKeys
                 THEN Raise("ValueError", "Unsupported operator")
                 ELSE IF DivisionGuard(op, b)
                 THEN Raise("ValueError", DivisionByZero)
                 ELSE [OPS(op, a, b) EXCEPT !.invoked = TRUE]

(***************************************************************************)
(* format_number                                                           *)
(***************************************************************************)
Shown(txt) == [kind |-> "return", text |-> txt, etype |-> "", msg |-> ""]

ShowRaise(e, m) == [kind |-> "raise", text |-> <<>>, etype |-> e, msg |-> m]

NotShown == [kind |-> "none", text |-> <<>>, etype |-> "", msg |-> ""]

\* str() of a natural number.
RECURSIVE NatStr(_)
NatStr(k) == IF k < 10 THEN <<DigitChars[k + 1]>>
             ELSE NatStr(k \div 10) \o <<DigitChars[(k % 10) + 1]>>

\* str() of an int.
IntStr(k) == IF k < 0 THEN <<"-">> \o NatStr(-k) ELSE NatStr(k)

\* The digits after the point of r/d (0 <= r < d), by long division; "..."
\* stands for the digits beyond FracDigits, which the model does not compute.
RECURSIVE FractionStr(_, _, _)
FractionStr(r, d, k) ==
    IF r = 0 THEN <<>>
    ELSE IF k = 0 THEN <<"...">>
    ELSE <<DigitChars[((10 * r) \div d) + 1]>> \o FractionStr((10 * r) % d, d, k - 1)

\* str() of a float that is no integer (all of them, within the bounds,
\* between 1e-4 and 1e16 in magnitude, where repr uses no exponent).
FloatStr(x) ==
    (IF x.n < 0 THEN <<"-">> ELSE <<>>)
    \o NatStr(Abs(x.n) \div x.d) \o <<".">> \o FractionStr(Abs(x.n) % x.d, x.d, FracDigits)

\* str() of an irrational power: digits, a point, digits; the model does not
\* compute them.
IrrationalStr == <<"<digits>", ".", "<digits>">>

ComplexToInt == "int() argument must be a string, a bytes-like object or a real number, not 'complex'"

format_number(x) ==
    IF x.t = "complex" THEN ShowRaise("TypeError", ComplexToInt)
    ELSE IF x.t = "irrational" THEN Shown(IrrationalStr)
    ELSE IF x = Float(TruncInt(x), 1) THEN Shown(IntStr(TruncInt(x)))
    ELSE Shown(FloatStr(x))

(***************************************************************************)
(* The inputs: expressions put together from operand and operator texts,   *)
(* every short string over a few characters, the examples of the module's  *)
(* docstring, and the command words in every letter case.                  *)
(***************************************************************************)
\* The sequences over S of length lo..hi.
Seqs(S, lo, hi) == UNION {[1..k -> S] : k \in lo..hi}

Fractions == {<<>>, <<".", "0">>, <<".", "5">>}

OperandTexts ==
    {sg \o NatStr(k) \o f : sg \in {<<>>, <<"-">>}, k \in 0..MaxMag, f \in Fractions}

Composed ==
    {a \o w \o op \o w \o b :
        a \in OperandTexts, b \in OperandTexts, op \in OpsKeys, w \in {<<>>, <<" ">>}}

OpRegionChars == {"-", "*", "/", " "}

OpRegionLines == {<<"2">> \o r \o <<"3">> : r \in Seqs(OpRegionChars, 1, MaxOpLen)}

RawChars == {"0", "5", ".", "/", " ", "x"}

RawStrings == Seqs(RawChars, 0, MaxRawLen)

Examples ==
    { <<"2", " ", "+", " ", "3">>,
      <<"1", "0", " ", "-", " ", "4", ".", "5">>,
      <<"7", " ", "*", " ", "8">>,
      <<"9", " ", "/", " ", "2">>,
      <<"9", " ", "/", "/", " ", "2">>,
      <<"1", "0", " ", "%", " ", "3">>,
      <<"2", " ", "*", "*", " ", "8">>,
      <<"5", " ", "/", " ", "0">>,
      <<"b", "a", "n", "a", "n", "a">>,
      <<"2", " ", "+">>,
      <<"2", " ", "^", " ", "3">>,
      <<"2", " ", "+", " ", "3", " ", "+", " ", "4">>,
      <<"\t", "-", "4", ".", "5", "\t", "/", "/", "\t", "2", "\t">> }

\* The arguments calculate_expression is tried on.
Strings == Composed \cup OpRegionLines \cup RawStrings \cup Examples

QuitWords == {<<"q">>, <<"q", "u", "i", "t">>, <<"e", "x", "i", "t">>}

HelpWord == <<"h", "e", "l", "p">>

UpperOf(c) == UpperLetters[CHOOSE k \in 1..Len(LowerLetters) : LowerLetters[k] = c]

\* A word in every letter case.
CaseVariants(w) ==
    LET letters == {w[i] : i \in 1..Len(w)} \cup {UpperOf(w[i]) : i \in 1..Len(w)}
    IN  {v \in [1..Len(w) -> letters] : Lower(v) = w}

CommandLines ==
    LET words == UNION {CaseVariants(w) : w \in QuitWords \cup {HelpWord}}
    IN  words
        \cup {<<" ">> \o w \o <<" ">> : w \in QuitWords \cup {HelpWord}}
        \cup {<<"\t">> \o w : w \in {<<"Q">>, <<"Q", "u", "i", "t">>, <<"E", "X", "I", "T">>, <<"H", "e", "l", "p">>}}
        \cup { <<"q", "q">>, <<"q", "u">>, <<"q", " ", "q">>, <<"e", "x", "i", "t", "!">>,
               <<"h", "e", "l", "p", "p">>, <<"q", "u", "i", "t", " ", "2">> }

BlankLines == {<<>>, <<" ">>, <<" ", " ">>, <<"\t">>, <<" ", "\t", " ">>}

ReplOperands ==
    {<<"-", "0", ".", "0">>, NatStr(MaxMag), <<"-">> \o NatStr(MaxMag), <<"0", ".", "5">>}

ReplExpressions ==
    {a \o <<" ">> \o op \o <<" ">> \o b :
        a \in ReplOperands, b \in ReplOperands, op \in OpsKeys}

\* The lines a session is tried on.
Lines == CommandLines \cup BlankLines \cup Examples \cup ReplExpressions

(***************************************************************************)
(* main: the session.  Each step is one pass of the loop, from the call of *)
(* input() to the next one or to the end of the process.                   *)
(***************************************************************************)
Banner == "Simple Calculator - type 'help' for instructions, 'q' to quit."

Doc == "Simple Calculator (CLI) ... Usage ... Commands ... Notes ..."

\* print("=", text) and print("Error:", message)
PrintResult(txt) == <<"=", " ">> \o txt

PrintError(m) == <<"Error:", " ", m>>

Init ==
    /\ pc = "input"
    /\ event = "start"
    /\ expr = <<>>
    /\ result = NoResult
    /\ shown = NotShown
    /\ out = << <<Banner>> >>
    /\ nread = 0
    /\ calls = 0
    /\ exitcode = 0
    /\ uncaught = ""

\* The loop's pass on the line `line`, which input() returned.
Iteration(line) ==
    LET e     == Strip(line)
        lower == Lower(e)
        r     == calculate_expression(e)
        f     == format_number(r.val)
    IN  /\ expr' = line
        /\ nread' = nread + 1
        /\ event' = "line"
        /\ uncaught' = ""
        /\ exitcode' = 0
        /\ IF e = <<>>
           THEN /\ pc' = "input"
                /\ out' = <<>>
                /\ calls' = 0 /\ result' = NoResult /\ shown' = NotShown
           ELSE IF lower \in QuitWords
           THEN /\ pc' = "exited"
                /\ out' = << <<"Goodbye.">> >>
                /\ calls' = 0 /\ result' = NoResult /\ shown' = NotShown
           ELSE IF lower = HelpWord
           THEN /\ pc' = "input"
                /\ out' = << <<Doc>> >>
                /\ calls' = 0 /\ result' = NoResult /\ shown' = NotShown
           ELSE /\ pc' = "input"
                /\ calls' = 1
                /\ result' = r
                /\ IF r.kind = "return"
                   THEN /\ shown' = f
                        /\ out' = IF f.kind = "return"
                                  THEN <<PrintResult(f.text)>>
                                  ELSE <<PrintError(f.msg)>>
                   ELSE /\ shown' = NotShown
                        /\ out' = <<PrintError(r.msg)>>

\* A line of text is read and the pass on it runs to its end.
ReadLine ==
    /\ pc = "input"
    /\ nread < MaxReads
    /\ \E line \in Lines : Iteration(line)

\* input() raises EOFError or KeyboardInterrupt: caught, farewell, break.
ReadStopped(why) ==
    /\ pc = "input"
    /\ pc' = "exited"
    /\ event' = why
    /\ out' = << <<"\nExiting.">> >>
    /\ exitcode' = 0
    /\ uncaught' = ""
    /\ calls' = 0 /\ result' = NoResult /\ shown' = NotShown
    /\ UNCHANGED <<expr, nread>>

ReadEOF == ReadStopped("eof")

ReadInterrupt == ReadStopped("interrupt")

\* The line holds bytes that are no text in the terminal's encoding.  Where
\* standard input decodes strictly, input() raises UnicodeDecodeError, which
\* the except clause of the read does not name; where it decodes with
\* surrogateescape, the line comes through as text.
ReadUndecodable ==
    /\ pc = "input"
    /\ nread < MaxReads
    /\ \/ /\ pc' = "exited"
          /\ event' = "undecodable"
          /\ uncaught' = "UnicodeDecodeError"
          /\ exitcode' = 1
          /\ out' = <<>>
          /\ calls' = 0 /\ result' = NoResult /\ shown' = NotShown
          /\ UNCHANGED <<expr, nread>>
       \/ Iteration(<<"\\udcff">>)

\* A KeyboardInterrupt arrives after input() has returned `line`, before the
\* pass prints: no handler of the loop's body names it.
InterruptInBody ==
    /\ pc = "input"
    /\ nread < MaxReads
    /\ \E line \in Lines :
        /\ expr' = line
        /\ nread' = nread + 1
        /\ pc' = "exited"
        /\ event' = "interrupt_in_body"
        /\ uncaught' = "KeyboardInterrupt"
        /\ exitcode' = 130
        /\ out' = <<>>
        /\ calls' = 0 /\ result' = NoResult /\ shown' = NotShown

Next == ReadLine \/ ReadEOF \/ ReadInterrupt \/ ReadUndecodable \/ InterruptInBody

Spec == Init /\ [][Next]_vars

(***************************************************************************)
(* calculate_expression and format_number on their own: called on every    *)
(* string of Strings.                                                      *)
(***************************************************************************)
CalcInit ==
    /\ pc = "call"
    /\ event = "call"
    /\ expr \in Strings
    /\ result = NoResult
    /\ shown = NotShown
    /\ out = <<>>
    /\ nread = 0
    /\ calls = 0
    /\ exitcode = 0
    /\ uncaught = ""

CallCalculate ==
    /\ pc = "call"
    /\ pc' = "returned"
    /\ result' = calculate_expression(expr)
    /\ calls' = 1
    /\ UNCHANGED <<event, expr, shown, out, nread, exitcode, uncaught>>

CallFormat ==
    /\ pc = "returned"
    /\ result.kind = "return"
    /\ pc' = "formatted"
    /\ shown' = format_number(result.val)
    /\ UNCHANGED <<event, expr, result, out, nread, calls, exitcode, uncaught>>

CalcNext == CallCalculate \/ CallFormat

CalcSpec == CalcInit /\ [][CalcNext]_vars

(***************************************************************************)
(* The grammar of an expression, stated on the text itself:                *)
(*   expression := operand, operator, operand   (blanks around each)       *)
(*   operand    := optional '-', digits, optional ('.', digits)            *)
(*   operator   := + | - | * | / | // | % | **                             *)
(***************************************************************************)
AllSpace(t) == \A i \in 1..Len(t) : IsSpace(t[i])

AllDigits(t) == Len(t) >= 1 /\ \A i \in 1..Len(t) : IsDigit(t[i])

IsUnsignedText(t) ==
    \/ AllDigits(t)
    \/ \E k \in 1..Len(t) :
        t[k] = "." /\ AllDigits(SubSeq(t, 1, k - 1)) /\ AllDigits(SubSeq(t, k + 1, Len(t)))

IsOperandText(t) ==
    \/ IsUnsignedText(t)
    \/ Len(t) >= 1 /\ t[1] = "-" /\ IsUnsignedText(Tail(t))

IsOperatorText(t) ==
    t \in {<<"+">>, <<"-">>, <<"*">>, <<"/">>, <<"/", "/">>, <<"%">>, <<"*", "*">>}

\* Every way to read s as blanks, operand, blanks, operator, blanks, operand,
\* blanks: the set of <<left operand, operator, right operand>>.
Parses(s) ==
    LET N == Len(s) + 1
        P(i, j) == SubSeq(s, i, j - 1)
        c1 == {<<a0>> : a0 \in {i \in 1..N : AllSpace(P(1, i))}}
        c2 == {c \in {Append(c, i) : c \in c1, i \in 1..N} :
                  c[1] < c[2] /\ IsOperandText(P(c[1], c[2]))}
        c3 == {c \in {Append(c, i) : c \in c2, i \in 1..N} :
                  c[2] <= c[3] /\ AllSpace(P(c[2], c[3]))}
        c4 == {c \in {Append(c, i) : c \in c3, i \in 1..N} :
                  c[3] < c[4] /\ IsOperatorText(P(c[3], c[4]))}
        c5 == {c \in {Append(c, i) : c \in c4, i \in 1..N} :
                  c[4] <= c[5] /\ AllSpace(P(c[4], c[5]))}
        c6 == {c \in {Append(c, i) : c \in c5, i \in 1..N} :
                  c[5] < c[6] /\ IsOperandText(P(c[5], c[6])) /\ AllSpace(P(c[6], N))}
    IN  {<<P(c[1], c[2]), P(c[3], c[4]), P(c[5], c[6])>> : c \in c6}

DivisionOperators == {<<"/">>, <<"/", "/">>, <<"%">>}

\* calculate_expression has been called on expr and has come back.
Called == pc \in {"returned", "formatted"}

(***************************************************************************)
(* The claims about calculate_expression and format_number (CalcSpec).     *)
(***************************************************************************)
One == Float(1, 1)

AbsF(x) == Float(Abs(x.n), x.d)

\* v is the result mathematics gives for a op b.
Correct(op, a, b, v) ==
    CASE op = <<"+">> -> Sub(v, b) = a
      [] op = <<"-">> -> Add(v, b) = a
      [] op = <<"*">> -> v = Mul(a, b)
      [] op = <<"/">> -> Mul(v, b) = a
      [] op = <<"/", "/">> ->
            IsIntegral(v) /\ ~Less(Div(a, b), v) /\ Less(Div(a, b), Add(v, One))
      [] op = <<"%">> ->
            Sub(a, v) = Mul(b, Float(FloorInt(Div(a, b)), 1))
      [] op = <<"*", "*">> ->
            IF IsIntegral(b)
            THEN IF b.n >= 0
                 THEN v = Float(IntPow(a.n, b.n), IntPow(a.d, b.n))
                 ELSE Mul(v, Float(IntPow(a.n, -b.n), IntPow(a.d, -b.n))) = One
            ELSE ~IsNeg(v)

\* C1: every input that matches the grammar, with a non-zero right operand
\* or with the operator +, -, * or **, makes calculate_expression return
\* (raise nothing), and what it returns is the mathematically correct result
\* of the operator on the two operands.
C1_Claim ==
    Called =>
        \A p \in Parses(expr) :
            LET a == ToFloat(p[1])
                b == ToFloat(p[3])
            IN  (p[2] \notin DivisionOperators \/ ~IsZero(b)) =>
                    /\ result.kind = "return"
                    /\ result.val.t # "complex"
                    /\ result.val.t = "float" => Correct(p[2], a, b, result.val)

\* The same for the operators other than **, and for ** with a base that is
\* not zero when the exponent is negative and not negative when the exponent
\* is no integer.
C1_DefinedCases ==
    Called =>
        \A p \in Parses(expr) :
            LET a == ToFloat(p[1])
                b == ToFloat(p[3])
            IN  /\ (p[2] \notin DivisionOperators \/ ~IsZero(b))
                /\ p[2] = <<"*", "*">> =>
                      /\ ~(IsZero(a) /\ IsNeg(b))
                      /\ ~(IsNeg(a) /\ ~IsIntegral(b))
                => /\ result.kind = "return"
                   /\ result.val.t # "complex"
                   /\ result.val.t = "float" => Correct(p[2], a, b, result.val)

\* A text that writes the value zero: 0, 0.0, -0, -0.0, 00, ...
IsZeroText(t) == \A i \in 1..Len(t) : t[i] \in {"0", ".", "-"}

\* C2: a grammar-matching input whose operator is /, // or % and whose right
\* operand writes zero fails with ValueError("Division by zero is not
\* allowed") before the operation is invoked; with the operators +, -, * and
\* ** no input produces that failure.
C2_DivisionByZero ==
    Called =>
        /\ \A p \in Parses(expr) :
              /\ (p[2] \in DivisionOperators /\ IsZeroText(p[3])) =>
                    result = Raise("ValueError", DivisionByZero)
              /\ (p[2] \notin DivisionOperators \/ ~IsZeroText(p[3])) =>
                    result.msg # DivisionByZero
        /\ Parses(expr) = {} => result.msg # DivisionByZero

C2_Witness ==
    /\ pc = "returned"
    /\ \E p \in Parses(expr) : p[2] = <<"%">> /\ p[3] = <<"-", "0", ".", "0">>
    /\ result = Raise("ValueError", DivisionByZero)

\* C3: an input that does not match the grammar in its entirety (blanks
\* around it aside) fails with ValueError("Invalid format. ...") and yields
\* no number; an input that matches the grammar never fails that way.
C3_Malformed ==
    Called =>
        /\ (Parses(expr) = {}) <=> (result = Raise("ValueError", InvalidFormat))
        /\ Parses(expr) # {} => result.msg # InvalidFormat

C3_Witness ==
    /\ pc = "returned"
    /\ expr = <<"2", " ", "+", " ", "3", " ", "+", " ", "4">>
    /\ result = Raise("ValueError", InvalidFormat)

\* What calculate_expression is to give for the reading p of its argument.
Applied(p) ==
    LET a == ToFloat(p[1])
        b == ToFloat(p[3])
    IN  IF p[2] \in DivisionOperators /\ IsZero(b)
        THEN Raise("ValueError", DivisionByZero)
        ELSE [OPS(p[2], a, b) EXCEPT !.invoked = TRUE]

\* Two operator characters with blanks between them, the second no minus
\* sign: "2 * * 3", "2 / / 3".
SeparatedOperators(e) ==
    \E i \in 1..Len(e) : \E k \in (i + 2)..Len(e) :
        /\ e[i] \in {"+", "-", "*", "/", "%"}
        /\ e[k] \in {"+", "*", "/", "%"}
        /\ AllSpace(SubSeq(e, i + 1, k - 1))

\* C9: a grammar-matching input has exactly one reading as (left operand,
\* operator, right operand), and that reading is the one evaluated: ** is
\* exponentiation and // floor division, never two one-character operators;
\* two separated operator characters are malformed; a minus sign directly
\* before the right operand's digits is its sign.
C9_OneReading ==
    Called =>
        /\ Cardinality(Parses(expr)) <= 1
        /\ \A p \in Parses(expr) : result = Applied(p)
        /\ \A i \in 1..(Len(expr) - 1) :
              (expr[i] = expr[i + 1] /\ expr[i] \in {"*", "/"} /\ result.kind = "return") =>
                  \E p \in Parses(expr) : p[2] = <<expr[i], expr[i]>>
        /\ SeparatedOperators(expr) => result = Raise("ValueError", InvalidFormat)
        /\ expr = <<"2", "-", "-", "3">> => result.val = Float(5, 1)
        /\ expr = <<"2", " ", "-", "3">> => result.val = Float(-1, 1)
        /\ expr = <<"2", "*", "*", "-", "3">> => result.val = Float(1, 8)

C9_Witness ==
    /\ pc = "returned"
    /\ expr = <<"2", "*", "*", "-", "3">>
    /\ result.invoked
    /\ result.val = Float(1, 8)

C8_Claim ==
    pc = "formatted" =>
        /\ shown.kind = "return"
        /\ IsIntegral(result.val) => shown.text = IntStr(result.val.n)
        /\ ~IsIntegral(result.val) => \E i \in 1..Len(shown.text) : shown.text[i] = "."

\* The same for the results that are real numbers.
C8_RealResults ==
    (pc = "formatted" /\ result.val.t = "float") =>
        /\ shown.kind = "return"
        /\ IsIntegral(result.val) => shown.text = IntStr(result.val.n)
        /\ ~IsIntegral(result.val) => \E i \in 1..Len(shown.text) : shown.text[i] = "."
        /\ expr = <<"9", " ", "/", " ", "2">> => shown.text = <<"4", ".", "5">>
        /\ expr = <<"9", " ", "/", "/", " ", "2">> => shown.text = <<"4">>
        /\ expr = <<"2", " ", "*", "*", " ", "8">> => shown.text = <<"2", "5", "6">>
        /\ expr = <<"4", "/", "2">> => shown.text = <<"2">>

(***************************************************************************)
(* The claims about the session (Spec).                                    *)
(***************************************************************************)
\* u is the word w in some letter case.
SameWord(u, w) ==
    Len(u) = Len(w) /\ \A k \in 1..Len(w) : u[k] \in {w[k], UpperOf(w[k])}

\* The text of line l between its surrounding blanks is a quit word in some
\* letter case.
IsQuitLine(l) ==
    \E i \in 1..Len(l) : \E j \in i..Len(l) :
        /\ AllSpace(SubSeq(l, 1, i - 1)) /\ AllSpace(SubSeq(l, j + 1, Len(l)))
        /\ \E w \in QuitWords : SameWord(SubSeq(l, i, j), w)

Farewells == { << <<"Goodbye.">> >>, << <<"\nExiting.">> >> }

\* The pass on a line whose evaluation or formatting failed printed the one
\* line "Error: <message>" and is back at the prompt.
C4_ErrorsRecovered ==
    (event = "line" /\ calls = 1 /\ (result.kind = "raise" \/ shown.kind = "raise")) =>
        /\ pc = "input"
        /\ out = <<PrintError(IF result.kind = "raise" THEN result.msg ELSE shown.msg)>>
        /\ uncaught = ""

\* C4: no failure is fatal to the session: a line whose evaluation or
\* formatting fails gets the one line "Error: <message>" and the loop is back
\* awaiting input; the loop is left only through a quit command, the end of
\* input or an interrupt.
C4_Claim ==
    /\ C4_ErrorsRecovered
    /\ pc = "exited" =>
          \/ event \in {"eof", "interrupt", "interrupt_in_body"}
          \/ event = "line" /\ IsQuitLine(expr)

\* C5: the session always exits cleanly: the end of input and an interrupt
\* are handled like a quit (farewell line, exit code 0), and no path ends the
\* process with a non-zero exit code or an uncaught exception.
C5_Claim ==
    pc = "exited" =>
        /\ exitcode = 0
        /\ uncaught = ""
        /\ out \in Farewells

\* C6: a line whose trimmed text is q, quit or exit in any letter case ends
\* the session as "q" does: the farewell line is printed, the evaluator is
\* not invoked on the line, and no further line is read.
C6_Quit ==
    (event = "line" /\ IsQuitLine(expr)) =>
        /\ pc = "exited"
        /\ out = << <<"Goodbye.">> >>
        /\ calls = 0 /\ result = NoResult /\ shown = NotShown
        /\ exitcode = 0 /\ uncaught = ""
        /\ ~ENABLED Next

C6_Witness ==
    /\ event = "line"
    /\ expr = <<"\t", "E", "X", "I", "T">>
    /\ nread = 2
    /\ pc = "exited"
    /\ out = << <<"Goodbye.">> >>

\* C7: an empty or whitespace-only line prints nothing, does not invoke the
\* evaluator and does not end the session: the loop is at the next prompt.
C7_Blank ==
    (event = "line" /\ AllSpace(expr)) =>
        /\ pc = "input"
        /\ out = <<>>
        /\ calls = 0 /\ result = NoResult /\ shown = NotShown
        /\ exitcode = 0 /\ uncaught = ""

C7_Witness ==
    /\ event = "line"
    /\ expr = <<" ", "\t", " ">>
    /\ nread = 1
    /\ pc = "input"
    /\ out = <<>>

====
